---- MODULE Spec2Model ----
(***************************************************************************)
(* The form organisms of the content-management UI (LoginForm, PostForm)   *)
(* and the HomePage template that mounts one of them, as a state machine.  *)
(* One action per event handler; an action is the whole handler, with the  *)
(* React state it leaves behind once the event's updates are committed.    *)
(* Text values are sequences of one-character strings.  An error entry of  *)
(* "" stands for an absent / undefined entry of the FormErrors mapping.    *)
(***************************************************************************)
EXTENDS Naturals, Sequences, FiniteSets

VARIABLES
  user,            \* HomePage prop: NoUser (null) or a user
  post,            \* PostForm state (useState hooks of PostForm.tsx 24-34)
  login,           \* LoginForm state (useState hooks of LoginForm 22-28)
  pending,         \* server-action calls awaited and not yet returned
  event,           \* the handler that ran last: [kind, form, detail], a reply's error too
  slugTouched,     \* history: the slug field was edited directly on this page
  onSuccessCalls,  \* calls of the onSuccess prop made by the last submission
  reloadCalls,     \* calls of window.location.reload made by the last submission
  reloadPending    \* a page reload has been requested and not yet happened

vars == <<user, post, login, pending, event, slugTouched,
          onSuccessCalls, reloadCalls, reloadPending>>

-----------------------------------------------------------------------------
(* Bounds and input alphabets *)

MaxLen == 2

TitleChars == {"H", " "}

Texts(chars, n) == UNION {[1..k -> chars] : k \in 0..n}

Titles == Texts(TitleChars, MaxLen)

ManualSlugs == {<<>>, <<"x">>}

Contents == {<<>>, <<"c">>}

Emails == {<<>>, <<"a">>}

Passwords == {<<>>, <<"p">>}

NoUser == "null"

Users == {NoUser, "alice"}

\* ids of the categories prop of PostForm
Categories == {"c1", "c2"}

\* result.error of a failure reply: absent/empty, or a message
ReplyErrors == {"", "Server rejected"}

Replies ==
  {[kind |-> "success", error |-> ""], [kind |-> "exception", error |-> ""]}
    \cup {[kind |-> "failure", error |-> e] : e \in ReplyErrors}

-----------------------------------------------------------------------------
(* Messages *)

UnexpectedError == "An unexpected error occurred"

PostCreated == "Post created successfully!"

PostFailed == "Failed to create post"

AuthFailed == "Authentication failed"

-----------------------------------------------------------------------------
(* Utilities imported by the forms *)

SlugChar(c) ==
  CASE c = "H" -> "h"
    [] c = " " -> "-"
    [] OTHER -> c

RECURSIVE generateSlug(_)
generateSlug(text) ==
  IF text = <<>> THEN <<>>
  ELSE <<SlugChar(Head(text))>> \o generateSlug(Tail(text))

validatePostForm(data) ==
  [title   |-> IF data.title = <<>> THEN "Title is required" ELSE "",
   slug    |-> IF data.slug = <<>> THEN "Slug is required" ELSE "",
   content |-> IF data.content = <<>> THEN "Content is required" ELSE ""]

validateLoginForm(data) ==
  [email    |-> IF data.email = <<>> THEN "Email is required" ELSE "",
   password |-> IF data.password = <<>> THEN "Password is required" ELSE ""]

\* mutant: the validation result is never taken to hold an error
HasErrorsNever(errs) == FALSE

\* Object.keys(validationErrors).length > 0
HasErrors(errs) == \E f \in DOMAIN errs : errs[f] # ""

-----------------------------------------------------------------------------
(* Initial state of the components *)

EmptyPostData == [title |-> <<>>, slug |-> <<>>, content |-> <<>>, categories |-> <<>>]

NoPostErrors == [title |-> "", slug |-> "", content |-> ""]

PostFormInit ==
  [formData |-> EmptyPostData,
   errors |-> NoPostErrors,
   isSubmitting |-> FALSE,
   serverError |-> "",
   successMessage |-> "",
   isSlugManuallyEdited |-> FALSE]

EmptyLoginData == [email |-> <<>>, password |-> <<>>]

NoLoginErrors == [email |-> "", password |-> ""]

LoginFormInit ==
  [formData |-> EmptyLoginData,
   errors |-> NoLoginErrors,
   isSubmitting |-> FALSE,
   serverError |-> ""]

\* mutant: the user check is dropped and the dashboard is always rendered
HomePageAlwaysDashboard(u) == "PostForm"

\* HomePage: the login form for a null user, the dashboard otherwise
HomePage(u) == IF u = NoUser THEN "LoginForm" ELSE "PostForm"

Element(component, props) == [component |-> component, props |-> props]

\* the components HomePage returns, each with the names of the props it is
\* given.  PostForm is given onSuccess only; the PostForm actions below are
\* those of the component with the categories prop its interface declares.
HomePageElements(u) ==
  IF HomePage(u) = "LoginForm"
    THEN {Element("LoginForm", {"onSuccess"})}
    ELSE {Element("UserGreeting", {"user", "onLogout"}),
          Element("PostForm", {"onSuccess"}),
          Element("PostList", {"posts", "emptyMessage"})}

\* the props PostForm dereferences while rendering (categories.length,
\* categories.map); onSuccess is only called through ?.
PostFormReadsProps == {"categories"}

Mounted == HomePage(user)

\* the record of the handler that ran last: its kind, its form, and the field
\* (change), category (toggle) or outcome (reply) it was about
Ev(kind, form, detail) == [kind |-> kind, form |-> form, detail |-> detail]

\* the record of a reply handler: the outcome, and the result.error it was given
ReplyEv(form, result) ==
  [kind |-> "reply", form |-> form, detail |-> result.kind, error |-> result.error]

Init ==
  /\ user \in Users
  /\ post = PostFormInit
  /\ login = LoginFormInit
  /\ pending = <<>>
  /\ event = Ev("mount", "HomePage", "")
  /\ slugTouched = FALSE
  /\ onSuccessCalls = 0
  /\ reloadCalls = 0
  /\ reloadPending = FALSE

-----------------------------------------------------------------------------
(* PostForm *)

\* mutant: the inputs, checkboxes and the Clear button are never disabled
InputEnabledAlways(form) == TRUE

\* the inputs, checkboxes and the Clear button carry disabled={isSubmitting}
InputEnabled(form) == ~form.isSubmitting

\* mutant: the submit button is never disabled
CanSubmitAlways(form) == TRUE

\* the submit button carries disabled={isSubmitting}
CanSubmit(form) == ~form.isSubmitting

\* mutant: the slug is derived from the title whatever the manual-edit flag
PostNewDataAlwaysDerives(prev, name, value, edited) ==
  LET newData == [prev EXCEPT ![name] = value]
  IN IF name = "title"
       THEN [newData EXCEPT !.slug = generateSlug(value)]
       ELSE newData

\* mutant: the slug is never derived from the title
PostNewDataNeverDerives(prev, name, value, edited) == [prev EXCEPT ![name] = value]

\* the updater passed to setFormData by handleChange
PostNewData(prev, name, value, edited) ==
  LET newData == [prev EXCEPT ![name] = value]
  IN IF name = "title" /\ ~edited
       THEN [newData EXCEPT !.slug = generateSlug(value)]
       ELSE newData

\* mutant: editing a field with an error drops every field's error
ClearAllErrors(errs, name) ==
  IF errs[name] # "" THEN [f \in DOMAIN errs |-> ""] ELSE errs

\* if (errors[name]) setErrors((prev) => ({ ...prev, [name]: undefined }))
ClearFieldError(errs, name) ==
  IF errs[name] # "" THEN [errs EXCEPT ![name] = ""] ELSE errs

PostValues(name) ==
  CASE name = "title" -> Titles
    [] name = "slug" -> ManualSlugs
    [] name = "content" -> Contents

PostHandleChange(name, value) ==
  /\ Mounted = "PostForm"
  /\ InputEnabled(post)
  /\ value # post.formData[name]
  /\ post' = [post EXCEPT
       !.formData = PostNewData(post.formData, name, value, post.isSlugManuallyEdited),
       !.isSlugManuallyEdited = IF name = "slug" THEN TRUE ELSE @,
       !.errors = ClearFieldError(@, name),
       !.serverError = "",
       !.successMessage = ""]
  /\ slugTouched' = (slugTouched \/ name = "slug")
  /\ event' = Ev("change", "PostForm", name)
  /\ UNCHANGED <<user, login, pending, onSuccessCalls, reloadCalls, reloadPending>>

Includes(seq, x) == \E i \in DOMAIN seq : seq[i] = x

Filter(seq, x) == SelectSeq(seq, LAMBDA id : id # x)

\* mutant: the id is appended whether or not it is selected
ToggledAlwaysAppends(currentCategories, categoryId) ==
  Append(currentCategories, categoryId)

\* the updater passed to setFormData by handleCategoryToggle
ToggledCategories(currentCategories, categoryId) ==
  IF Includes(currentCategories, categoryId)
    THEN Filter(currentCategories, categoryId)
    ELSE Append(currentCategories, categoryId)

HandleCategoryToggle(categoryId) ==
  /\ Mounted = "PostForm"
  /\ InputEnabled(post)
  /\ post' = [post EXCEPT
       !.formData.categories = ToggledCategories(@, categoryId)]
  /\ event' = Ev("toggle", "PostForm", categoryId)
  /\ UNCHANGED <<user, login, pending, slugTouched, onSuccessCalls, reloadCalls,
                 reloadPending>>

\* mutant: Clear also takes down the manual-edit flag
PostClearedResetsFlag(p) ==
  [p EXCEPT !.formData = EmptyPostData,
            !.errors = NoPostErrors,
            !.serverError = "",
            !.successMessage = "",
            !.isSlugManuallyEdited = FALSE]

\* onClick of the Clear button
PostCleared(p) ==
  [p EXCEPT !.formData = EmptyPostData,
            !.errors = NoPostErrors,
            !.serverError = "",
            !.successMessage = ""]

PostClear ==
  /\ Mounted = "PostForm"
  /\ InputEnabled(post)
  /\ post' = PostCleared(post)
  /\ event' = Ev("clear", "PostForm", "")
  /\ UNCHANGED <<user, login, pending, slugTouched, onSuccessCalls, reloadCalls,
                 reloadPending>>

\* mutant: the submit start resets the error banner only
PostSubmitResetKeepsSuccess(p) == [p EXCEPT !.serverError = ""]

\* mutant: the submit start resets the success banner only
PostSubmitResetKeepsError(p) == [p EXCEPT !.successMessage = ""]

\* handleSubmit, start: setServerError(''); setSuccessMessage('')
PostSubmitReset(p) == [p EXCEPT !.serverError = "", !.successMessage = ""]

\* handleSubmit, validation branch: the state when validation fails
PostRejected(p, validationErrors) == [p EXCEPT !.errors = validationErrors]

\* handleSubmit, after validation passed: setIsSubmitting(true)
PostAccepted(p) == [p EXCEPT !.isSubmitting = TRUE]

Call(action, arg) == [action |-> action, arg |-> arg]

\* handleSubmit up to the await of createPost(formData)
PostHandleSubmit ==
  /\ Mounted = "PostForm"
  /\ CanSubmit(post)
  /\ LET validationErrors == validatePostForm(post.formData)
         p == PostSubmitReset(post)
     IN IF HasErrors(validationErrors)
          THEN /\ post' = PostRejected(p, validationErrors)
               /\ pending' = pending
          ELSE /\ post' = PostAccepted(p)
               /\ pending' = Append(pending, Call("createPost", post.formData))
  /\ onSuccessCalls' = 0
  /\ reloadCalls' = 0
  /\ event' = Ev("submit", "PostForm", "")
  /\ UNCHANGED <<user, login, slugTouched, reloadPending>>

\* if (result.success) { ... }
PostOnSuccess(p) ==
  [p EXCEPT !.successMessage = PostCreated,
            !.formData = EmptyPostData,
            !.isSlugManuallyEdited = FALSE]

\* mutant: a failure reply also resets the entered data
PostOnFailureClears(p, error) ==
  [p EXCEPT !.serverError = IF error # "" THEN error ELSE PostFailed,
            !.formData = EmptyPostData]

\* else { setServerError(result.error || 'Failed to create post') }
PostOnFailure(p, error) ==
  [p EXCEPT !.serverError = IF error # "" THEN error ELSE PostFailed]

\* mutant: the catch branch shows nothing
PostOnExceptionSilent(p) == p

\* catch (error) { setServerError('An unexpected error occurred') }
PostOnException(p) == [p EXCEPT !.serverError = UnexpectedError]

\* mutant: the submitting flag is not reset
PostFinallyNothing(p) == p

\* finally { setIsSubmitting(false) }
PostFinally(p) == [p EXCEPT !.isSubmitting = FALSE]

RemoveAt(seq, i) == SubSeq(seq, 1, i - 1) \o SubSeq(seq, i + 1, Len(seq))

\* handleSubmit from the return of createPost to its end
PostReply(i, result) ==
  /\ Mounted = "PostForm"
  /\ i \in DOMAIN pending
  /\ pending[i].action = "createPost"
  /\ pending' = RemoveAt(pending, i)
  /\ IF result.kind = "success"
       THEN \* onSuccess is HomePage's () => window.location.reload(), then
            \* handleSubmit calls window.location.reload() itself
            /\ post' = PostFinally(PostOnSuccess(post))
            /\ onSuccessCalls' = onSuccessCalls + 1
            /\ reloadCalls' = reloadCalls + 2
            /\ reloadPending' = TRUE
       ELSE /\ post' = PostFinally(IF result.kind = "failure"
                                     THEN PostOnFailure(post, result.error)
                                     ELSE PostOnException(post))
            /\ UNCHANGED <<onSuccessCalls, reloadCalls, reloadPending>>
  /\ event' = ReplyEv("PostForm", result)
  /\ UNCHANGED <<user, login, slugTouched>>

-----------------------------------------------------------------------------
(* LoginForm *)

LoginValues(name) ==
  CASE name = "email" -> Emails
    [] name = "password" -> Passwords

LoginHandleChange(name, value) ==
  /\ Mounted = "LoginForm"
  /\ InputEnabled(login)
  /\ value # login.formData[name]
  /\ login' = [login EXCEPT
       !.formData = [@ EXCEPT ![name] = value],
       !.errors = ClearFieldError(@, name),
       !.serverError = ""]
  /\ event' = Ev("change", "LoginForm", name)
  /\ UNCHANGED <<user, post, pending, slugTouched, onSuccessCalls, reloadCalls,
                 reloadPending>>

\* handleSubmit, start: setServerError('')
LoginSubmitReset(l) == [l EXCEPT !.serverError = ""]

\* handleSubmit, validation branch: the state when validation fails
LoginRejected(l, validationErrors) == [l EXCEPT !.errors = validationErrors]

\* mutant: the submitting flag is not raised
LoginAcceptedNotSubmitting(l) == l

\* handleSubmit, after validation passed: setIsSubmitting(true)
LoginAccepted(l) == [l EXCEPT !.isSubmitting = TRUE]

\* handleSubmit up to the await of authorizeUser(email, password)
LoginHandleSubmit ==
  /\ Mounted = "LoginForm"
  /\ CanSubmit(login)
  /\ LET validationErrors == validateLoginForm(login.formData)
         l == LoginSubmitReset(login)
     IN IF HasErrors(validationErrors)
          THEN /\ login' = LoginRejected(l, validationErrors)
               /\ pending' = pending
          ELSE /\ login' = LoginAccepted(l)
               /\ pending' = Append(pending, Call("authorizeUser", login.formData))
  /\ onSuccessCalls' = 0
  /\ reloadCalls' = 0
  /\ event' = Ev("submit", "LoginForm", "")
  /\ UNCHANGED <<user, post, slugTouched, reloadPending>>

\* mutant: the message of the server is ignored
LoginOnFailureIgnoresError(l, error) == [l EXCEPT !.serverError = AuthFailed]

\* else { setServerError(result.error || 'Authentication failed') }
LoginOnFailure(l, error) ==
  [l EXCEPT !.serverError = IF error # "" THEN error ELSE AuthFailed]

\* catch (error) { setServerError('An unexpected error occurred') }
LoginOnException(l) == [l EXCEPT !.serverError = UnexpectedError]

\* finally { setIsSubmitting(false) }
LoginFinally(l) == [l EXCEPT !.isSubmitting = FALSE]

\* mutant: the parent is signalled and the page reloaded on every return
LoginReplySignalsAlways(i, result) ==
  /\ Mounted = "LoginForm"
  /\ i \in DOMAIN pending
  /\ pending[i].action = "authorizeUser"
  /\ pending' = RemoveAt(pending, i)
  /\ login' = LoginFinally(IF result.kind = "failure"
                             THEN LoginOnFailure(login, result.error)
                             ELSE IF result.kind = "exception"
                                    THEN LoginOnException(login)
                                    ELSE login)
  /\ onSuccessCalls' = onSuccessCalls + 1
  /\ reloadCalls' = reloadCalls + 2
  /\ reloadPending' = TRUE
  /\ event' = ReplyEv("LoginForm", result)
  /\ UNCHANGED <<user, post, slugTouched>>

\* handleSubmit from the return of authorizeUser to its end
LoginReply(i, result) ==
  /\ Mounted = "LoginForm"
  /\ i \in DOMAIN pending
  /\ pending[i].action = "authorizeUser"
  /\ pending' = RemoveAt(pending, i)
  /\ IF result.kind = "success"
       THEN \* onSuccess is HomePage's () => window.location.reload(), then
            \* handleSubmit calls window.location.reload() itself
            /\ login' = LoginFinally(login)
            /\ onSuccessCalls' = onSuccessCalls + 1
            /\ reloadCalls' = reloadCalls + 2
            /\ reloadPending' = TRUE
       ELSE /\ login' = LoginFinally(IF result.kind = "failure"
                                       THEN LoginOnFailure(login, result.error)
                                       ELSE LoginOnException(login))
            /\ UNCHANGED <<onSuccessCalls, reloadCalls, reloadPending>>
  /\ event' = ReplyEv("LoginForm", result)
  /\ UNCHANGED <<user, post, slugTouched>>

-----------------------------------------------------------------------------
(* The page *)

\* window.location.reload() takes effect: the page is loaded again, HomePage
\* is rendered with the user the server supplies and the form is mounted anew;
\* continuations of the old page are gone
Reload ==
  /\ reloadPending
  /\ user' \in Users
  /\ post' = PostFormInit
  /\ login' = LoginFormInit
  /\ pending' = <<>>
  /\ event' = Ev("mount", "HomePage", "")
  /\ slugTouched' = FALSE
  /\ onSuccessCalls' = 0
  /\ reloadCalls' = 0
  /\ reloadPending' = FALSE

PostFields == {"title", "slug", "content"}

LoginFields == {"email", "password"}

PostChange == \E name \in PostFields : \E value \in PostValues(name) : PostHandleChange(name, value)

PostToggle == \E categoryId \in Categories : HandleCategoryToggle(categoryId)

PostReplies == \E i \in DOMAIN pending : \E result \in Replies : PostReply(i, result)

LoginChange == \E name \in LoginFields : \E value \in LoginValues(name) : LoginHandleChange(name, value)

LoginReplies == \E i \in DOMAIN pending : \E result \in Replies : LoginReply(i, result)

Next ==
  \/ PostChange
  \/ PostToggle
  \/ PostClear
  \/ PostHandleSubmit
  \/ PostReplies
  \/ LoginChange
  \/ LoginHandleSubmit
  \/ LoginReplies
  \/ Reload

Spec == Init /\ [][Next]_vars

\* every awaited server action returns or throws
LiveSpec ==
  /\ Init
  /\ [][Next]_vars
  /\ WF_vars(PostReplies)
  /\ WF_vars(LoginReplies)

-----------------------------------------------------------------------------
(* Properties *)

Invalid(validationErrors) == \E f \in DOMAIN validationErrors : validationErrors[f] # ""

InFlight(action) == Cardinality({i \in DOMAIN pending : pending[i].action = action})

IsChange(e, form, name) == e.kind = "change" /\ e.form = form /\ e.detail = name

IsReply(e, form, outcome) == e.kind = "reply" /\ e.form = form /\ e.detail = outcome

\* C1: in PostForm at most one of serverError and successMessage is non-empty
\* in every reachable state
C1_OneBanner == ~(post.serverError # "" /\ post.successMessage # "")

\* a success reply shows the success banner and no error banner
C1_Witness ==
  /\ IsReply(event, "PostForm", "success")
  /\ post.successMessage = PostCreated
  /\ post.serverError = ""

\* C2: for each form at most one server-action call is in flight at any time
C2_OneCallInFlight == InFlight("createPost") <= 1 /\ InFlight("authorizeUser") <= 1

\* a createPost call is in flight and the form is in its submitting state
C2_Witness == InFlight("createPost") = 1 /\ post.isSubmitting /\ event.kind = "submit"

\* C3: a submit whose form data fails validation starts no server call, sets
\* errors to the validation result and leaves isSubmitting false; a server
\* call starts only in a submit whose form data validated to the empty
\* mapping, and it is passed that data
C3_ValidationBlocks ==
  [][/\ (event'.kind = "submit" /\ event'.form = "PostForm"
           /\ Invalid(validatePostForm(post.formData)))
          => /\ pending' = pending
             /\ post'.errors = validatePostForm(post.formData)
             /\ ~post'.isSubmitting
     /\ (event'.kind = "submit" /\ event'.form = "LoginForm"
           /\ Invalid(validateLoginForm(login.formData)))
          => /\ pending' = pending
             /\ login'.errors = validateLoginForm(login.formData)
             /\ ~login'.isSubmitting
     /\ Len(pending') > Len(pending)
          => /\ event'.kind = "submit"
             /\ \/ /\ event'.form = "PostForm"
                   /\ ~Invalid(validatePostForm(post.formData))
                   /\ pending' = Append(pending, Call("createPost", post.formData))
                \/ /\ event'.form = "LoginForm"
                   /\ ~Invalid(validateLoginForm(login.formData))
                   /\ pending' = Append(pending, Call("authorizeUser", login.formData))
    ]_vars

\* a submit of a post with a title and no content was blocked
C3_Witness ==
  /\ event.kind = "submit" /\ event.form = "PostForm"
  /\ post.formData.title # <<>>
  /\ post.errors.content # ""
  /\ pending = <<>>
  /\ ~post.isSubmitting

\* C4: a PostForm submission that ends in a failure reply or an exception
\* leaves title, slug, content and categories as they were passed to
\* createPost at the submit; one that ends in success resets all four
C4_FailureKeepsSuccessClears ==
  [][(event'.kind = "reply" /\ event'.form = "PostForm")
       => IF event'.detail = "success"
            THEN post'.formData = EmptyPostData
            ELSE /\ post'.formData = post.formData
                 /\ \E i \in DOMAIN pending :
                      /\ pending' = RemoveAt(pending, i)
                      /\ post'.formData = pending[i].arg
    ]_vars

\* a failure reply was handled and the entered title and categories are there
C4_Witness ==
  /\ IsReply(event, "PostForm", "failure")
  /\ post.formData.title # <<>>
  /\ post.formData.categories # <<>>
  /\ post.serverError # ""

\* C5 as stated: once the slug field has been edited directly, no later title
\* change of the same form instance alters the slug
C5_FrozenForEver ==
  [][(slugTouched /\ IsChange(event', "PostForm", "title"))
       => post'.formData.slug = post.formData.slug]_vars

\* C5 amended: while the manual-edit flag set by a direct slug edit stands, no
\* title change alters the slug; the flag is set by every direct slug edit and
\* is taken down only by a successful submission (or the page being loaded
\* again), never by Clear, a blocked submit, a failure reply or an exception
C5_FrozenUntilSuccess ==
  [][/\ (post.isSlugManuallyEdited /\ IsChange(event', "PostForm", "title"))
          => post'.formData.slug = post.formData.slug
     /\ IsChange(event', "PostForm", "slug") => post'.isSlugManuallyEdited
     /\ (post.isSlugManuallyEdited /\ ~post'.isSlugManuallyEdited)
          => (IsReply(event', "PostForm", "success") \/ event'.kind = "mount")
    ]_vars

\* after a direct slug edit a title change left the slug alone
C5_Witness ==
  /\ IsChange(event, "PostForm", "title")
  /\ slugTouched
  /\ post.isSlugManuallyEdited
  /\ post.formData.title = <<"H", " ">>
  /\ post.formData.slug = <<"x">>

\* C6: as long as the slug field was never edited directly, slug equals
\* generateSlug(title)
C6_SlugDerived ==
  ~slugTouched => post.formData.slug = generateSlug(post.formData.title)

\* title "H " gave slug "h-"
C6_Witness ==
  /\ IsChange(event, "PostForm", "title")
  /\ ~slugTouched
  /\ post.formData.title = <<"H", " ">>
  /\ post.formData.slug = <<"h", "-">>

\* C7: immediately after any submit attempt errors equals the validation
\* result for the form data of that attempt
C7_ErrorsRegenerated ==
  event.kind = "submit"
    => /\ event.form = "PostForm" => post.errors = validatePostForm(post.formData)
       /\ event.form = "LoginForm" => login.errors = validateLoginForm(login.formData)

\* C8: a change event on a field whose error is set clears that field's error
\* and leaves every other field's error entry unchanged
C8_ClearsOwnErrorOnly ==
  [][/\ (event'.kind = "change" /\ event'.form = "PostForm"
           /\ post.errors[event'.detail] # "")
          => /\ post'.errors[event'.detail] = ""
             /\ \A g \in DOMAIN post.errors \ {event'.detail} :
                  post'.errors[g] = post.errors[g]
     /\ (event'.kind = "change" /\ event'.form = "LoginForm"
           /\ login.errors[event'.detail] # "")
          => /\ login'.errors[event'.detail] = ""
             /\ \A g \in DOMAIN login.errors \ {event'.detail} :
                  login'.errors[g] = login.errors[g]
    ]_vars

\* after a blocked submit of the empty form a title change rewrote the slug:
\* the title error is gone, the slug and content errors are still there
C8_Witness ==
  /\ IsChange(event, "PostForm", "title")
  /\ post.formData.slug = <<"h">>
  /\ post.errors.title = ""
  /\ post.errors.slug # ""
  /\ post.errors.content # ""

\* C9: when the server action throws, handleSubmit runs to its end with
\* serverError the generic message, successMessage empty, the entered data
\* kept, isSubmitting false, and neither onSuccess nor a reload
C9_ExceptionHandled ==
  [][(event'.kind = "reply" /\ event'.detail = "exception")
       => /\ onSuccessCalls' = onSuccessCalls /\ onSuccessCalls' = 0
          /\ reloadCalls' = reloadCalls /\ reloadCalls' = 0
          /\ reloadPending' = reloadPending
          /\ event'.form = "PostForm"
               => /\ post'.serverError = UnexpectedError
                  /\ post'.successMessage = ""
                  /\ post'.formData = post.formData
                  /\ ~post'.isSubmitting
          /\ event'.form = "LoginForm"
               => /\ login'.serverError = UnexpectedError
                  /\ login'.formData = login.formData
                  /\ ~login'.isSubmitting
    ]_vars

\* createPost threw: the generic message is shown and the title is still there
C9_Witness ==
  /\ IsReply(event, "PostForm", "exception")
  /\ post.serverError = UnexpectedError
  /\ post.formData.title # <<>>
  /\ ~reloadPending

\* C10: a form in its submitting state eventually leaves it, given that the
\* awaited server call returns or throws
C10_SubmittingEnds ==
  /\ post.isSubmitting ~> ~post.isSubmitting
  /\ login.isSubmitting ~> ~login.isSubmitting

\* an authorizeUser call failed and the login form is no longer submitting
C10_Witness ==
  /\ IsReply(event, "LoginForm", "failure")
  /\ ~login.isSubmitting
  /\ pending = <<>>

\* C11: a submission signals the parent (onSuccess) and asks for the page
\* reload if and only if the server action replied with success; a successful
\* submission signals the parent exactly once, and a failure reply, an
\* exception or a blocked submit neither signals nor reloads
C11_SignalIffSuccess ==
  [][/\ (event'.kind = "reply" /\ event'.detail = "success")
          => /\ onSuccessCalls' = 1
             /\ reloadCalls' >= 1
             /\ reloadPending'
     /\ (event'.kind = "reply" /\ event'.detail # "success")
          => /\ onSuccessCalls' = 0
             /\ reloadCalls' = 0
             /\ reloadPending' = reloadPending
     /\ event'.kind = "submit"
          => /\ onSuccessCalls' = 0
             /\ reloadCalls' = 0
             /\ reloadPending' = reloadPending
     /\ (\/ onSuccessCalls' > onSuccessCalls
         \/ reloadCalls' > reloadCalls
         \/ (reloadPending' /\ ~reloadPending))
          => (event'.kind = "reply" /\ event'.detail = "success")
    ]_vars

\* authorizeUser replied with success: the parent was signalled once and the
\* reload is under way
C11_Witness ==
  /\ IsReply(event, "LoginForm", "success")
  /\ onSuccessCalls = 1
  /\ reloadCalls >= 1
  /\ reloadPending

\* C12: right after a submit event, whether validation passed or not, the
\* banners of the form are empty: serverError in both forms, successMessage
\* in PostForm
C12_SubmitResetsBanners ==
  event.kind = "submit"
    => /\ event.form = "PostForm"
            => (post.serverError = "" /\ post.successMessage = "")
       /\ event.form = "LoginForm" => login.serverError = ""

\* after a successful submission (its reload still under way) the emptied form
\* was submitted again: validation blocked it and the success banner is gone
C12_Witness ==
  /\ event.kind = "submit" /\ event.form = "PostForm"
  /\ reloadPending
  /\ post.errors.title # ""
  /\ post.successMessage = ""
  /\ post.serverError = ""
  /\ ~post.isSubmitting

Rendered == {e.component : e \in HomePageElements(user)}

\* C13: HomePage renders the login form if and only if user is null; for a
\* user it renders the post form and the post list and not the login form, so
\* exactly one of the two views is rendered, and only the rendered form
\* receives events
C13_LoginIffNoUser ==
  /\ ("LoginForm" \in Rendered) <=> (user = NoUser)
  /\ user # NoUser => ({"PostForm", "PostList"} \subseteq Rendered)
  /\ user = NoUser => Rendered = {"LoginForm"}
  /\ ("LoginForm" \in Rendered) # ("PostForm" \in Rendered)
  /\ event.form \in Rendered \cup {"HomePage"}

\* a user is signed in and the post form of the dashboard took a change event
C13_Witness ==
  /\ user # NoUser
  /\ "PostList" \in Rendered
  /\ event.kind = "change" /\ event.form = "PostForm"

\* C19: every PostForm that HomePage renders is given the props it
\* dereferences while rendering, the category list among them
C19_CategoriesGiven ==
  \A e \in HomePageElements(user) :
    e.component = "PostForm" => PostFormReadsProps \subseteq e.props

C15_SubmittingIffInFlight ==
  /\ post.isSubmitting <=> (InFlight("createPost") > 0)
  /\ login.isSubmitting <=> (InFlight("authorizeUser") > 0)

\* an authorizeUser call is in flight and the login form is submitting
C15_Witness ==
  /\ InFlight("authorizeUser") = 1
  /\ login.isSubmitting
  /\ ~post.isSubmitting
  /\ login.formData.email # <<>>

\* C16: while a form is submitting it accepts no change, category-toggle or
\* clear event, so the data of the form stays the data passed to the server
\* action until the reply is handled
C16_DataFrozenInFlight ==
  [][/\ (post.isSubmitting /\ event'.form = "PostForm")
          => event'.kind \notin {"change", "toggle", "clear"}
     /\ (login.isSubmitting /\ event'.form = "LoginForm")
          => event'.kind \notin {"change", "toggle", "clear"}
     /\ \A i \in DOMAIN pending :
          pending[i].arg = (IF pending[i].action = "createPost"
                              THEN post.formData ELSE login.formData)
     /\ (event'.kind = "reply" /\ event'.form = "PostForm")
          => \E i \in DOMAIN pending :
               pending' = RemoveAt(pending, i) /\ pending[i].arg = post.formData
     /\ (event'.kind = "reply" /\ event'.form = "LoginForm")
          => \E i \in DOMAIN pending :
               pending' = RemoveAt(pending, i) /\ pending[i].arg = login.formData
    ]_vars

\* a createPost call with a title and two categories is in flight and the form
\* still holds the data that was passed
C16_Witness ==
  /\ InFlight("createPost") = 1
  /\ pending[1].arg = post.formData
  /\ Len(post.formData.categories) = 2
  /\ post.formData.title # <<>>
  /\ post.isSubmitting

\* C17: the Clear button resets title, slug, content and categories, empties
\* errors, serverError and successMessage and leaves the manual-edit flag as
\* it is; a title typed right after a Clear that followed a direct slug edit
\* derives no slug (the slug stays empty)
C17_ClearKeepsFlag ==
  [][/\ event'.kind = "clear"
          => /\ post'.formData = EmptyPostData
             /\ post'.errors = NoPostErrors
             /\ post'.serverError = ""
             /\ post'.successMessage = ""
             /\ post'.isSlugManuallyEdited = post.isSlugManuallyEdited
             /\ post'.isSubmitting = post.isSubmitting
     /\ (event.kind = "clear" /\ post.isSlugManuallyEdited
           /\ IsChange(event', "PostForm", "title"))
          => /\ post'.formData.title # <<>>
             /\ post'.formData.slug = <<>>
    ]_vars

\* Clear was pressed after a direct slug edit: the form is empty and the
\* manual-edit flag still stands
C17_Witness ==
  /\ event.kind = "clear"
  /\ slugTouched
  /\ post.isSlugManuallyEdited
  /\ post.formData = EmptyPostData

Range(seq) == {seq[i] : i \in DOMAIN seq}

\* C18: handleCategoryToggle(id) changes formData.categories only: it removes
\* id when it is selected and appends it otherwise, so categories never holds
\* an id twice and toggling the same id twice gives the selection set back
C18_ToggleCategoriesOnly ==
  [][event'.kind = "toggle"
       => LET id == event'.detail
              old == post.formData.categories
              new == post'.formData.categories
          IN /\ post' = [post EXCEPT !.formData.categories = new]
             /\ slugTouched' = slugTouched
             /\ IF id \in Range(old)
                  THEN /\ Range(new) = Range(old) \ {id}
                       /\ Len(new) = Len(old) - 1
                  ELSE new = Append(old, id)
             /\ Cardinality(Range(new)) = Len(new)
             /\ Range(ToggledCategories(new, id)) = Range(old)
    ]_vars

\* the second of two selected categories was toggled off again
C18_Witness ==
  /\ event.kind = "toggle" /\ event.detail = "c2"
  /\ post.formData.categories = <<"c1">>
  /\ post.formData.title # <<>>
  /\ post.serverError # ""

====
